---- MODULE Spec2Model ----
(***************************************************************************)
(* Model of pkg/notify/elasticsearch.go: the ElasticSearch notifier.       *)
(*                                                                         *)
(* One sink (the ElasticSearch struct) is shared by a few callers that run *)
(* SendEvent / SendMessage concurrently.  SendEvent is split at each       *)
(* request it sends through the client (IndexExists, CreateIndex, Index,   *)
(* Flush); a request is sent and answered in one step, so calls interleave *)
(* between requests.  Every request reads the clock again (time.Now()), so *)
(* the clock is part of the state and may advance between two requests.    *)
(* The document store is the Elasticsearch server behind the client: a set *)
(* of indices and a set of documents.                                      *)
(***************************************************************************)
EXTENDS Naturals, Sequences, FiniteSets, TLC

VARIABLES
    e,        \* the sink: the fields of the ElasticSearch struct
    now,      \* the calendar date time.Now() returns
    ticks,    \* how many times the date has advanced
    indices,  \* the store: the indices that exist, with their settings
    docs,     \* the store: the documents written
    pc,       \* per caller: where its call stands
    op,       \* per caller: the method it called
    arg,      \* per caller: the argument the caller passed
    event,    \* per caller: SendEvent's by-value parameter `event`
    exists,   \* per caller: SendEvent's local `exists`
    err,      \* per caller: the value the call returns
    reqs,     \* per caller: the requests the current call has sent, in order
    callTime, \* per caller: the date at which the current call was made
    calls,    \* how many calls have been made so far
    failed    \* how many SendEvent calls have returned an error so far

vars == <<e, now, ticks, indices, docs, pc, op, arg, event, exists, err, reqs,
          callTime, calls, failed>>

-----------------------------------------------------------------------------
(* Bounds of the model. *)

MaxCalls == 2
MaxTicks == 1

\* The goroutines that call the sink.
Callers == {"c1", "c2"}

-----------------------------------------------------------------------------
(* Values. *)

\* The sink as NewElasticSearch builds it from the configuration (ELSClient is
\* the connection to the store and Server is never set).
Configs ==
    { [Index |-> "k8sevents", Type |-> "botkube-event", Shards |-> 5,
       Replicas |-> 2, ClusterName |-> "prod"] }

\* events.Event, as far as the sink reads or writes it.
Events == [Cluster : {"", "staging"}, Name : {"pod-a"}]

Messages == {"hello"}

Date(y, m, d) == [year |-> y, month |-> m, day |-> d]

StartDates == { Date(2024, 3, 7), Date(2024, 12, 31) }

nil == "nil"

\* Errors a request can come back with.
TransportError == "transport error"
AlreadyExists == "resource_already_exists_exception"

NoEvent == [Cluster |-> "", Name |-> ""]


-----------------------------------------------------------------------------
(* time.Time.Format, for the layout elements the sink's layout uses. *)

Digits == <<"0", "1", "2", "3", "4", "5", "6", "7", "8", "9">>

Digit(n) == Digits[n + 1]

\* n in decimal, zero-padded to two digits (n < 100).
Pad2(n) == Digit(n \div 10) \o Digit(n % 10)

\* n in decimal, zero-padded to four digits (n < 10000).
Pad4(n) == Pad2(n \div 100) \o Pad2(n % 100)

\* The layout elements: "02" is the zero-padded day of the month, "01" the
\* zero-padded month, "2006" the four-digit year; any other text is copied.
FormatElement(t, el) ==
    CASE el = "02" -> Pad2(t.day)
      [] el = "01" -> Pad2(t.month)
      [] el = "2006" -> Pad4(t.year)
      [] OTHER -> el

RECURSIVE Format(_, _)
Format(t, layout) ==
    IF layout = <<>> THEN ""
    ELSE FormatElement(t, Head(layout)) \o Format(t, Tail(layout))

\* Mutant: the month before the day.
indexSuffixFormat_monthFirst == <<"01", "-", "02", "-", "2006">>

\* indexSuffixFormat = "02-01-2006", split into its layout elements.
indexSuffixFormat == <<"02", "-", "01", "-", "2006">>

\* e.Index + "-" + time.Now().Format(indexSuffixFormat), with t = time.Now().
IndexName(base, t) == base \o "-" \o Format(t, indexSuffixFormat)

-----------------------------------------------------------------------------
(* The clock. *)

IsLeap(y) == (y % 4 = 0 /\ y % 100 # 0) \/ y % 400 = 0

DaysIn(y, m) ==
    IF m = 2 THEN (IF IsLeap(y) THEN 29 ELSE 28)
    ELSE IF m \in {4, 6, 9, 11} THEN 30 ELSE 31

NextDay(t) ==
    IF t.day < DaysIn(t.year, t.month) THEN Date(t.year, t.month, t.day + 1)
    ELSE IF t.month < 12 THEN Date(t.year, t.month + 1, 1)
    ELSE Date(t.year + 1, 1, 1)

-----------------------------------------------------------------------------
(* The requests and the store. *)

OK == "ok"

\* A request as sent through the client, with the answer it got.  body is
\* <<>> for a request without a body and <<b>> for one with the JSON body b.
Request(kind, index, type, body, resp) ==
    [kind |-> kind, index |-> index, type |-> type, body |-> body, resp |-> resp]

\* Mutant: the two counts in each other's place.
mapping_swapped(sink) ==
    [settings |-> [index |-> [number_of_shards |-> sink.Replicas,
                              number_of_replicas |-> sink.Shards]]]

\* The mapping struct SendEvent builds for CreateIndex.
mapping(sink) ==
    [settings |-> [index |-> [number_of_shards |-> sink.Shards,
                              number_of_replicas |-> sink.Replicas]]]

IndexNames == { i.name : i \in indices }

\* The answers the store can give.  Any request can fail in transport; a
\* create of an index that exists is refused by the store.
ExistsAnswers == {OK, TransportError}
CreateAnswers(name) ==
    IF name \in IndexNames THEN {AlreadyExists, TransportError}
    ELSE {OK, TransportError}
IndexAnswers == {OK, TransportError}
FlushAnswers == {OK, TransportError}

\* The store after a create it accepted: the index exists with the body's settings.
StoreCreate(name, body) == indices \cup {[name |-> name, settings |-> <<body>>]}

\* The store after a write it accepted: an index that does not exist yet is
\* made by the store itself, with the store's own default settings.
StoreAutoCreate(name) ==
    IF name \in IndexNames THEN indices
    ELSE indices \cup {[name |-> name, settings |-> <<>>]}

StoreWrite(name, type, body) ==
    docs \cup {[index |-> name, type |-> type, body |-> body]}

-----------------------------------------------------------------------------
(* Init: the sink as NewElasticSearch returned it, an empty or a populated store. *)

Init ==
    /\ e \in Configs
    /\ now \in StartDates
    /\ ticks = 0
    /\ indices \in { {}, {[name |-> IndexName(e.Index, now), settings |-> <<mapping(e)>>]} }
    /\ docs = {}
    /\ pc = [p \in Callers |-> "idle"]
    /\ op = [p \in Callers |-> "none"]
    /\ arg = [p \in Callers |-> <<>>]
    /\ event = [p \in Callers |-> NoEvent]
    /\ exists = [p \in Callers |-> FALSE]
    /\ err = [p \in Callers |-> nil]
    /\ reqs = [p \in Callers |-> <<>>]
    /\ callTime = [p \in Callers |-> now]
    /\ calls = 0
    /\ failed = 0

-----------------------------------------------------------------------------
(* SendEvent. *)

\* Mutant: the label is set only when the event carries none.
SetCluster_ifMissing(ev, sink) ==
    IF ev.Cluster = "" THEN [ev EXCEPT !.Cluster = sink.ClusterName] ELSE ev

\* event.Cluster = e.ClusterName, on SendEvent's own copy of the event.
SetCluster(ev, sink) == [ev EXCEPT !.Cluster = sink.ClusterName]

\* Mutants: the branch never taken, and always taken.
MustCreate_never(found) == FALSE
MustCreate_always(found) == TRUE

\* `if !exists`: whether the call sends a CreateIndex request.
MustCreate(found) == ~found

Send(p, r) == reqs' = [reqs EXCEPT ![p] = Append(@, r)]

\* Mutant: the error is logged and nil returned.
ReturnErr_nil(p, x) ==
    /\ err' = [err EXCEPT ![p] = nil]
    /\ pc' = [pc EXCEPT ![p] = "return"]

ReturnErr(p, x) ==
    /\ err' = [err EXCEPT ![p] = x]
    /\ pc' = [pc EXCEPT ![p] = "return"]

\* A caller calls SendEvent(ev): lines 117-122.
SendEvent(p, ev) ==
    /\ pc[p] = "idle"
    /\ calls < MaxCalls
    /\ calls' = calls + 1
    /\ op' = [op EXCEPT ![p] = "SendEvent"]
    /\ arg' = [arg EXCEPT ![p] = <<ev>>]
    /\ event' = [event EXCEPT ![p] = SetCluster(ev, e)]
    /\ callTime' = [callTime EXCEPT ![p] = now]
    /\ pc' = [pc EXCEPT ![p] = "IndexExists"]
    /\ UNCHANGED <<e, now, ticks, indices, docs, exists, err, reqs, failed>>

\* Mutant: a failed existence check is logged and the call goes on.
IndexExists_noReturn(p) ==
    /\ pc[p] = "IndexExists"
    /\ LET name == IndexName(e.Index, now) IN
       \E resp \in ExistsAnswers :
          /\ Send(p, Request("IndexExists", name, "", <<>>, resp))
          /\ exists' = [exists EXCEPT ![p] = resp = OK /\ name \in IndexNames]
          /\ pc' = [pc EXCEPT ![p] =
                      IF MustCreate(exists'[p]) THEN "CreateIndex" ELSE "Index"]
          /\ UNCHANGED err
    /\ UNCHANGED <<e, now, ticks, indices, docs, op, arg, event, callTime, calls, failed>>

\* Lines 125-130: the existence check, and the branch on its result.
IndexExists(p) ==
    /\ pc[p] = "IndexExists"
    /\ LET name == IndexName(e.Index, now) IN
       \E resp \in ExistsAnswers :
          /\ Send(p, Request("IndexExists", name, "", <<>>, resp))
          /\ IF resp # OK
             THEN ReturnErr(p, resp) /\ UNCHANGED exists
             ELSE /\ exists' = [exists EXCEPT ![p] = name \in IndexNames]
                  /\ pc' = [pc EXCEPT ![p] =
                              IF MustCreate(exists'[p]) THEN "CreateIndex" ELSE "Index"]
                  /\ UNCHANGED err
    /\ UNCHANGED <<e, now, ticks, indices, docs, op, arg, event, callTime, calls, failed>>

\* Lines 131-145: create the index.
CreateIndex(p) ==
    /\ pc[p] = "CreateIndex"
    /\ LET name == IndexName(e.Index, now) IN
       \E resp \in CreateAnswers(name) :
          /\ Send(p, Request("CreateIndex", name, "", <<mapping(e)>>, resp))
          /\ IF resp # OK
             THEN ReturnErr(p, resp) /\ UNCHANGED indices
             ELSE /\ indices' = StoreCreate(name, mapping(e))
                  /\ pc' = [pc EXCEPT ![p] = "Index"]
                  /\ UNCHANGED err
    /\ UNCHANGED <<e, now, ticks, docs, op, arg, event, exists, callTime, calls, failed>>

\* Mutant: a failed write is logged and the call goes on to flush.
Index_flushOnError(p) ==
    /\ pc[p] = "Index"
    /\ LET name == IndexName(e.Index, now) IN
       \E resp \in IndexAnswers :
          /\ Send(p, Request("Index", name, e.Type, <<event[p]>>, resp))
          /\ indices' = IF resp = OK THEN StoreAutoCreate(name) ELSE indices
          /\ docs' = IF resp = OK THEN StoreWrite(name, e.Type, event[p]) ELSE docs
          /\ pc' = [pc EXCEPT ![p] = "Flush"]
          /\ UNCHANGED err
    /\ UNCHANGED <<e, now, ticks, op, arg, event, exists, callTime, calls, failed>>

\* Lines 148-152: write the event.
Index(p) ==
    /\ pc[p] = "Index"
    /\ LET name == IndexName(e.Index, now) IN
       \E resp \in IndexAnswers :
          /\ Send(p, Request("Index", name, e.Type, <<event[p]>>, resp))
          /\ IF resp # OK
             THEN ReturnErr(p, resp) /\ UNCHANGED <<indices, docs>>
             ELSE /\ indices' = StoreAutoCreate(name)
                  /\ docs' = StoreWrite(name, e.Type, event[p])
                  /\ pc' = [pc EXCEPT ![p] = "Flush"]
                  /\ UNCHANGED err
    /\ UNCHANGED <<e, now, ticks, op, arg, event, exists, callTime, calls, failed>>

\* Lines 153-159: flush, and return nil.
Flush(p) ==
    /\ pc[p] = "Flush"
    /\ LET name == IndexName(e.Index, now) IN
       \E resp \in FlushAnswers :
          /\ Send(p, Request("Flush", name, "", <<>>, resp))
          /\ ReturnErr(p, IF resp # OK THEN resp ELSE nil)
    /\ UNCHANGED <<e, now, ticks, indices, docs, op, arg, event, exists, callTime,
                   calls, failed>>

-----------------------------------------------------------------------------
(* SendMessage: lines 163-165. *)

\* Mutant: the message is written to the store like an event.
SendMessage_posts(p, msg) ==
    /\ pc[p] = "idle"
    /\ calls < MaxCalls
    /\ calls' = calls + 1
    /\ op' = [op EXCEPT ![p] = "SendMessage"]
    /\ arg' = [arg EXCEPT ![p] = <<msg>>]
    /\ Send(p, Request("Index", IndexName(e.Index, now), e.Type, <<msg>>, OK))
    /\ err' = [err EXCEPT ![p] = nil]
    /\ pc' = [pc EXCEPT ![p] = "return"]
    /\ UNCHANGED <<e, now, ticks, indices, docs, event, exists, callTime, failed>>

SendMessage(p, msg) ==
    /\ pc[p] = "idle"
    /\ calls < MaxCalls
    /\ calls' = calls + 1
    /\ op' = [op EXCEPT ![p] = "SendMessage"]
    /\ arg' = [arg EXCEPT ![p] = <<msg>>]
    /\ err' = [err EXCEPT ![p] = nil]
    /\ pc' = [pc EXCEPT ![p] = "return"]
    /\ UNCHANGED <<e, now, ticks, indices, docs, event, exists, reqs, callTime, failed>>

-----------------------------------------------------------------------------
(* The caller takes the result; the call's locals go away. *)

Return(p) ==
    /\ pc[p] = "return"
    /\ failed' = IF op[p] = "SendEvent" /\ err[p] # nil THEN failed + 1 ELSE failed
    /\ pc' = [pc EXCEPT ![p] = "idle"]
    /\ op' = [op EXCEPT ![p] = "none"]
    /\ arg' = [arg EXCEPT ![p] = <<>>]
    /\ event' = [event EXCEPT ![p] = NoEvent]
    /\ exists' = [exists EXCEPT ![p] = FALSE]
    /\ err' = [err EXCEPT ![p] = nil]
    /\ reqs' = [reqs EXCEPT ![p] = <<>>]
    /\ callTime' = [callTime EXCEPT ![p] = now]
    /\ UNCHANGED <<e, now, ticks, indices, docs, calls>>

\* The calendar date advances.
Tick ==
    /\ ticks < MaxTicks
    /\ ticks' = ticks + 1
    /\ now' = NextDay(now)
    /\ UNCHANGED <<e, indices, docs, pc, op, arg, event, exists, err, reqs,
                   callTime, calls, failed>>

Next ==
    \/ \E p \in Callers, ev \in Events : SendEvent(p, ev)
    \/ \E p \in Callers : IndexExists(p)
    \/ \E p \in Callers : CreateIndex(p)
    \/ \E p \in Callers : Index(p)
    \/ \E p \in Callers : Flush(p)
    \/ \E p \in Callers, msg \in Messages : SendMessage(p, msg)
    \/ \E p \in Callers : Return(p)
    \/ Tick

Spec == Init /\ [][Next]_vars


-----------------------------------------------------------------------------
(* What the properties below read off a call. *)

Last(s) == s[Len(s)]

\* The positions in caller p's current call at which a request of kind k was sent.
Sent(p, k) == { i \in 1..Len(reqs[p]) : reqs[p][i].kind = k }

\* Every request caller p's current call has sent was answered without error.
AllOK(p) == \A i \in 1..Len(reqs[p]) : reqs[p][i].resp = OK

InSendEvent(p) == op[p] = "SendEvent"

Returned(p) == InSendEvent(p) /\ pc[p] = "return"

\* The existence check of p's current call was answered, and said `found`.
Checked(p, found) ==
    /\ InSendEvent(p)
    /\ Len(reqs[p]) >= 1
    /\ reqs[p][1].resp = OK
    /\ exists[p] = found

\* Caller p sends a request in this step.
Sends(p) == Len(reqs'[p]) = Len(reqs[p]) + 1

\* DD-MM-YYYY, written out independently of time.Format.
TwoDigits(n) == IF n < 10 THEN "0" \o ToString(n) ELSE ToString(n)
DDMMYYYY(t) == TwoDigits(t.day) \o "-" \o TwoDigits(t.month) \o "-" \o ToString(t.year)
Target(t) == e.Index \o "-" \o DDMMYYYY(t)

-----------------------------------------------------------------------------
\* C1: a SendEvent call whose existence check reported the target absent and
\* whose requests all succeeded has sent exactly one create request and exactly
\* one write request, the create before the write.
C1_FreshTargetCreateThenWrite ==
    \A p \in Callers :
        (Returned(p) /\ Checked(p, FALSE) /\ AllOK(p)) =>
            /\ Cardinality(Sent(p, "CreateIndex")) = 1
            /\ Cardinality(Sent(p, "Index")) = 1
            /\ \A i \in Sent(p, "CreateIndex") : \A j \in Sent(p, "Index") : i < j

C1_Witness ==
    \E p \in Callers :
        Returned(p) /\ Checked(p, FALSE) /\ AllOK(p) /\ err[p] = nil /\ Len(reqs[p]) = 4

\* C2: a SendEvent call whose existence check reported that the target exists
\* sends no create request: the request after the check is the write.
C2_ExistingTargetNoCreate ==
    \A p \in Callers :
        Checked(p, TRUE) =>
            /\ Sent(p, "CreateIndex") = {}
            /\ pc[p] # "CreateIndex"
            /\ Len(reqs[p]) >= 2 => reqs[p][2].kind = "Index"

C2_Witness ==
    \E p \in Callers : Returned(p) /\ Checked(p, TRUE) /\ Len(reqs[p]) >= 2

\* C3 as stated: no create request is ever sent for a name that exists in the
\* store, and every create request carries the configured shard and replica counts.
C3_NoCreateAgainstExisting ==
    [][\A p \in Callers :
          (Sends(p) /\ Last(reqs'[p]).kind = "CreateIndex") =>
              /\ Last(reqs'[p]).index \notin IndexNames
              /\ Last(reqs'[p]).body[1].settings.index.number_of_shards = e.Shards
              /\ Last(reqs'[p]).body[1].settings.index.number_of_replicas = e.Replicas]_vars

\* C3 as amended: a create request is sent only by a call whose existence check
\* reported absence and carries the configured shard and replica counts; the
\* store accepts it only for a name that does not exist and then holds the index
\* with exactly these settings, and refuses it (changing nothing) for a name
\* that exists; an index, once in the store, is never removed or reshaped.  So a
\* target is created at most once, although a create request can be sent for a
\* name that already exists.
C3_CreatedAtMostOnce ==
    [][/\ \A p \in Callers :
            (Sends(p) /\ Last(reqs'[p]).kind = "CreateIndex") =>
               LET r == Last(reqs'[p]) IN
                 /\ Checked(p, FALSE)
                 /\ r.body[1].settings.index.number_of_shards = e.Shards
                 /\ r.body[1].settings.index.number_of_replicas = e.Replicas
                 /\ r.resp = OK =>
                       /\ r.index \notin IndexNames
                       /\ indices' = indices \cup {[name |-> r.index, settings |-> r.body]}
                 /\ r.resp # OK => indices' = indices
       /\ indices \subseteq indices'
       /\ \A i, j \in indices' : i.name = j.name => i = j]_vars

\* A create request was sent for a name that existed, and was refused.
C3_Witness ==
    \E p \in Callers :
        /\ InSendEvent(p)
        /\ \E i \in Sent(p, "CreateIndex") :
              /\ reqs[p][i].resp = AlreadyExists
              /\ [name |-> reqs[p][i].index, settings |-> reqs[p][i].body] \in indices

\* C4: a call whose create request is refused because the target already exists
\* (the other caller created it first) still writes and flushes and returns no error.
C4_CreateRaceIsSuccess ==
    \A p \in Callers :
        (Returned(p) /\ \E i \in Sent(p, "CreateIndex") : reqs[p][i].resp = AlreadyExists) =>
            /\ err[p] = nil
            /\ Sent(p, "Index") # {}
            /\ Sent(p, "Flush") # {}

\* C5 as stated: every request of a call addresses base-DD-MM-YYYY of the date
\* at which the call was made.
C5_AllRequestsAddressCallTimeTarget ==
    \A p \in Callers :
        \A i \in 1..Len(reqs[p]) : reqs[p][i].index = Target(callTime[p])

\* C5 as amended: every request addresses base-DD-MM-YYYY of the date the clock
\* shows when that request is sent; the requests of a call all address the
\* target of the call's date as long as the date has not advanced since the call.
C5_RequestsAddressCurrentDateTarget ==
    /\ [](\A p \in Callers :
            now = callTime[p] =>
                \A i \in 1..Len(reqs[p]) : reqs[p][i].index = Target(callTime[p]))
    /\ [][\A p \in Callers : Sends(p) => Last(reqs'[p]).index = Target(now)]_vars

\* A call made on one date has sent a request on the next.
C5_Witness ==
    \E p \in Callers :
        /\ InSendEvent(p)
        /\ \E i \in 1..Len(reqs[p]) :
              /\ reqs[p][i].index = Target(now)
              /\ reqs[p][i].index # Target(callTime[p])

\* C6: when the existence check of a call fails, the call has sent nothing but
\* the check and returns the error.
C6_ExistsFailureStopsCall ==
    \A p \in Callers :
        (InSendEvent(p) /\ Len(reqs[p]) >= 1 /\ reqs[p][1].resp # OK) =>
            /\ Len(reqs[p]) = 1
            /\ reqs[p][1].kind = "IndexExists"
            /\ pc[p] = "return"
            /\ err[p] = reqs[p][1].resp

C6_Witness ==
    \E p \in Callers : Returned(p) /\ Len(reqs[p]) = 1 /\ reqs[p][1].resp = TransportError

\* C7: when the write request of a call fails, the call sends no flush request
\* and returns the error, and an index the same call created stays in the store.
C7_WriteFailureNoFlushNoRollback ==
    \A p \in Callers :
        \A i \in Sent(p, "Index") :
            reqs[p][i].resp # OK =>
                /\ Sent(p, "Flush") = {}
                /\ pc[p] = "return"
                /\ err[p] = reqs[p][i].resp
                /\ \A j \in Sent(p, "CreateIndex") :
                      reqs[p][j].resp = OK =>
                          [name |-> reqs[p][j].index, settings |-> reqs[p][j].body] \in indices

C7_Witness ==
    \E p \in Callers :
        /\ Returned(p)
        /\ \E i \in Sent(p, "Index") : reqs[p][i].resp # OK
        /\ \E j \in Sent(p, "CreateIndex") : reqs[p][j].resp = OK

\* C8: every document in the store, and the body of every write request,
\* carries the sink's configured cluster label, whatever label the caller's
\* event carried; no step changes the sink's label.
C8_ClusterLabelIsConfigured ==
    /\ [](/\ \A d \in docs : d.body.Cluster = e.ClusterName
          /\ \A p \in Callers : \A i \in Sent(p, "Index") :
                reqs[p][i].body[1].Cluster = e.ClusterName)
    /\ [][e'.ClusterName = e.ClusterName]_vars

\* A call whose event carried another label has written its document.
C8_Witness ==
    \E p \in Callers :
        /\ InSendEvent(p)
        /\ arg[p][1].Cluster \notin {"", e.ClusterName}
        /\ \E i \in Sent(p, "Index") :
              /\ reqs[p][i].resp = OK
              /\ [index |-> reqs[p][i].index, type |-> e.Type, body |-> reqs[p][i].body[1]] \in docs

\* C9: a SendMessage call sends no request, returns nil, and leaves the store
\* and the sink as they were.
C9_SendMessageNoOp ==
    [][\A p \in Callers :
          (pc[p] = "idle" /\ op'[p] = "SendMessage") =>
              /\ pc'[p] = "return"
              /\ err'[p] = nil
              /\ reqs' = reqs
              /\ indices' = indices
              /\ docs' = docs
              /\ e' = e]_vars

\* SendMessage has returned against a store that holds an index and a document.
C9_Witness ==
    \E p \in Callers :
        op[p] = "SendMessage" /\ pc[p] = "return" /\ indices # {} /\ docs # {}

\* C10: a call sends each kind of request at most once and stops at the first
\* request that fails, returning its error; and whatever calls failed before, a
\* call all of whose requests are answered without error sends the check, the
\* create if the target was absent, the write and the flush, and returns nil.
C10_NoRetryNoPoison ==
    \A p \in Callers :
        InSendEvent(p) =>
            /\ \A k \in {"IndexExists", "CreateIndex", "Index", "Flush"} :
                  Cardinality(Sent(p, k)) <= 1
            /\ \A i \in 1..Len(reqs[p]) :
                  reqs[p][i].resp # OK =>
                      i = Len(reqs[p]) /\ pc[p] = "return" /\ err[p] = reqs[p][i].resp
            /\ (pc[p] = "return" /\ AllOK(p)) =>
                  /\ err[p] = nil
                  /\ [i \in 1..Len(reqs[p]) |-> reqs[p][i].kind] =
                        IF exists[p] THEN <<"IndexExists", "Index", "Flush">>
                        ELSE <<"IndexExists", "CreateIndex", "Index", "Flush">>

\* After a failed call, a call has run the whole sequence and returned nil.
C10_Witness ==
    \E p \in Callers :
        /\ failed >= 1
        /\ Returned(p) /\ AllOK(p) /\ err[p] = nil
        /\ Len(reqs[p]) = 4

=============================================================================
